---------------------------- MODULE Spec2Model ----------------------------
(***************************************************************************)
(* Session based authentication of Authfix (src/session/session_auth.rs). *)
(*                                                                         *)
(* The model follows one client through a bounded number of requests.     *)
(* Inside a request the handlers call SessionAuthProvider and LoginSession *)
(* on the request's actix Session, which is a map from keys to JSON texts  *)
(* together with a status (Unchanged, Changed, Renewed, Purged).  When the *)
(* request is answered the session middleware acts on the status and hands *)
(* the client the session key of the CookieSessionStore, which is the      *)
(* serialized record itself.                                               *)
(***************************************************************************)
EXTENDS Integers, Sequences, FiniteSets, TLC

\* Bounds of the model.
MaxTime == 1        \* the clock and the stored deadlines range over 0..MaxTime
MaxRequests == 1    \* requests the client sends after the first one
MaxCalls == 2       \* calls a handler makes on the provider and the LoginSession

\* The fixed session keys (session_auth.rs:26-28).
SESSION_KEY_USER == "user"
SESSION_KEY_NEED_MFA == "needs_mfa"
SESSION_KEY_LOGIN_VALID_UNTIL == "login_valid_until"

Keys == {SESSION_KEY_USER, SESSION_KEY_NEED_MFA, SESSION_KEY_LOGIN_VALID_UNTIL}

\* User payloads of the generic type U.  BadUser is a payload whose Serialize
\* implementation reports an error.
Users == {"u1", "u2"}
BadUser == "unserializable"

\* Identifiers of MFA factors handed to needs_mfa (any &str, also the empty one).
MfaIds == {"", "totp"}

\* Points in time.  PreEpoch is a SystemTime before UNIX_EPOCH, which serde
\* refuses to serialize.
PreEpoch == 0 - 1
Times == 0..MaxTime
TimeArgs == {PreEpoch} \cup Times

---------------------------------------------------------------------------
\* serde_json: the texts that the session holds.

Digits == <<"0", "1", "2", "3", "4", "5", "6", "7", "8", "9">>

\* serde_json::to_string of a user payload.
UserToJson(u) == "{\"id\":\"" \o u \o "\"}"

\* serde_json::to_string of a &str.
StrToJson(s) == "\"" \o s \o "\""

\* serde_json::to_string of a SystemTime that is not before the epoch.
TimeToJson(t) == "{\"secs_since_epoch\":" \o Digits[t + 1] \o ",\"nanos_since_epoch\":0}"

\* A JSON text that is neither a user, a string nor a SystemTime.
Garbage == "42"

\* The result of Session::get::<T>: Ok(Some(v)), Ok(None) or Err.
Some(v) == [kind |-> "Some", val |-> v]
None == [kind |-> "None"]
GetErr == [kind |-> "Err"]

\* s.get::<U>(key): serde_json::from_str::<U> of the stored text.
GetUser(st, key) ==
    IF key \notin DOMAIN st THEN None
    ELSE IF \E u \in Users : UserToJson(u) = st[key]
         THEN Some(CHOOSE u \in Users : UserToJson(u) = st[key])
         ELSE GetErr

\* s.get::<String>(key).
GetString(st, key) ==
    IF key \notin DOMAIN st THEN None
    ELSE IF \E s \in MfaIds : StrToJson(s) = st[key]
         THEN Some(CHOOSE s \in MfaIds : StrToJson(s) = st[key])
         ELSE GetErr

\* s.get::<SystemTime>(key).
GetSystemTime(st, key) ==
    IF key \notin DOMAIN st THEN None
    ELSE IF \E t \in 0..(Len(Digits) - 1) : TimeToJson(t) = st[key]
         THEN Some(CHOOSE t \in 0..(Len(Digits) - 1) : TimeToJson(t) = st[key])
         ELSE GetErr

---------------------------------------------------------------------------
\* actix_session::Session as the code uses it: a record [state, status].

EmptyState == [k \in {} |-> ""]

\* Outcome of serde_json::to_string(&value) inside Session::insert.
SerOk(json) == [ok |-> TRUE, json |-> json]
SerFail == [ok |-> FALSE, json |-> ""]

Touched(status) == IF status = "Renewed" THEN "Renewed" ELSE "Changed"

\* Session::insert(key, value): nothing on a purged session; otherwise the
\* status is marked, the value serialized (an error returns here) and stored.
SessionInsert(s, key, ser) ==
    IF s.status = "Purged" THEN [s |-> s, ret |-> "Ok"]
    ELSE IF ~ser.ok
         THEN [s |-> [s EXCEPT !.status = Touched(s.status)], ret |-> "InsertError"]
         ELSE [s |-> [state |-> [k \in DOMAIN s.state \cup {key} |->
                                    IF k = key THEN ser.json ELSE s.state[k]],
                      status |-> Touched(s.status)],
               ret |-> "Ok"]

\* Session::remove(key).
SessionRemove(s, key) ==
    IF s.status = "Purged" THEN s
    ELSE [state |-> [k \in DOMAIN s.state \ {key} |-> s.state[k]],
          status |-> Touched(s.status)]

\* Session::clear().
SessionClear(s) ==
    IF s.status = "Purged" THEN s
    ELSE [state |-> EmptyState, status |-> Touched(s.status)]

\* Session::renew().
SessionRenew(s) ==
    IF s.status = "Purged" THEN s ELSE [s EXCEPT !.status = "Renewed"]

\* Session::purge().
SessionPurge(s) == [state |-> EmptyState, status |-> "Purged"]

---------------------------------------------------------------------------
\* The results of the provider.

\* The states an AuthToken can carry.
AuthState == {"Unauthenticated", "NeedsMfa", "Authenticated"}

\* AuthToken::new(user, state).
AuthToken(user, authState) == [kind |-> "Ok", user |-> user, state |-> authState]

\* Err(UnauthorizedError::default()).
Unauthorized == [kind |-> "Err", user |-> "", state |-> "UnauthorizedError"]

\* error!("Cannot read `need_mfa' value from session").
NeedMfaReadFault == "Cannot read `need_mfa' value from session"

\* get_auth_token with an absent user taken for a default user.
GetAuthToken_AnonymousUser(st) ==
    LET user == GetUser(st, SESSION_KEY_USER)
        name == IF user.kind = "Some" THEN user.val ELSE ""
        mfa == GetString(st, SESSION_KEY_NEED_MFA) IN
    IF user.kind = "Err" \/ mfa.kind = "Err"
    THEN [result |-> Unauthorized, log |-> <<>>]
    ELSE [result |-> AuthToken(name, IF mfa.kind = "Some" THEN "NeedsMfa"
                                                           ELSE "Authenticated"),
          log |-> <<>>]

\* get_auth_token with an empty factor identifier taken for no factor.
GetAuthToken_EmptyMfaIgnored(st) ==
    LET user == GetUser(st, SESSION_KEY_USER)
        mfa == GetString(st, SESSION_KEY_NEED_MFA) IN
    IF user.kind # "Some" \/ mfa.kind = "Err"
    THEN [result |-> Unauthorized, log |-> <<>>]
    ELSE [result |-> AuthToken(user.val, IF mfa.kind = "Some" /\ mfa.val # ""
                                         THEN "NeedsMfa" ELSE "Authenticated"),
          log |-> <<>>]

\* get_auth_token with every readable needs_mfa result taken for NeedsMfa.
GetAuthToken_AlwaysMfa(st) ==
    LET user == GetUser(st, SESSION_KEY_USER)
        mfa == GetString(st, SESSION_KEY_NEED_MFA) IN
    IF user.kind # "Some" \/ mfa.kind = "Err"
    THEN [result |-> Unauthorized, log |-> <<>>]
    ELSE [result |-> AuthToken(user.val, "NeedsMfa"), log |-> <<>>]

\* get_auth_token with a failed read of needs_mfa taken for an absent key.
GetAuthToken_ErrAsAbsent(st) ==
    LET user == GetUser(st, SESSION_KEY_USER)
        mfa == GetString(st, SESSION_KEY_NEED_MFA) IN
    IF user.kind # "Some"
    THEN [result |-> Unauthorized, log |-> <<>>]
    ELSE [result |-> AuthToken(user.val, IF mfa.kind = "Some" THEN "NeedsMfa"
                                                               ELSE "Authenticated"),
          log |-> <<>>]

\* get_auth_token that rejects a session without a readable deadline.
GetAuthToken_EnforcesDeadline(st) ==
    LET user == GetUser(st, SESSION_KEY_USER)
        mfa == GetString(st, SESSION_KEY_NEED_MFA)
        valid_until == GetSystemTime(st, SESSION_KEY_LOGIN_VALID_UNTIL) IN
    IF user.kind # "Some" \/ valid_until.kind # "Some"
    THEN [result |-> Unauthorized, log |-> <<>>]
    ELSE CASE mfa.kind = "Some" ->
                [result |-> AuthToken(user.val, "NeedsMfa"), log |-> <<>>]
           [] mfa.kind = "None" ->
                [result |-> AuthToken(user.val, "Authenticated"), log |-> <<>>]
           [] OTHER ->
                [result |-> Unauthorized, log |-> <<NeedMfaReadFault>>]

\* get_auth_token that does not report a failed read of needs_mfa.
GetAuthToken_SilentFault(st) ==
    LET user == GetUser(st, SESSION_KEY_USER)
        mfa == GetString(st, SESSION_KEY_NEED_MFA) IN
    IF user.kind # "Some" \/ mfa.kind = "Err"
    THEN [result |-> Unauthorized, log |-> <<>>]
    ELSE [result |-> AuthToken(user.val, IF mfa.kind = "Some" THEN "NeedsMfa"
                                                               ELSE "Authenticated"),
          log |-> <<>>]

\* get_auth_token that answers a failed read of needs_mfa with a token.
GetAuthToken_UnauthenticatedToken(st) ==
    LET user == GetUser(st, SESSION_KEY_USER)
        mfa == GetString(st, SESSION_KEY_NEED_MFA) IN
    IF user.kind # "Some"
    THEN [result |-> Unauthorized, log |-> <<>>]
    ELSE [result |-> AuthToken(user.val, CASE mfa.kind = "Some" -> "NeedsMfa"
                                           [] mfa.kind = "None" -> "Authenticated"
                                           [] OTHER -> "Unauthenticated"),
          log |-> IF mfa.kind = "Err" THEN <<NeedMfaReadFault>> ELSE <<>>]

\* SessionAuthProvider::get_auth_token on the session contents st: the result
\* and the records written to the error log.
GetAuthToken(st) ==
    LET user == GetUser(st, SESSION_KEY_USER) IN
    IF user.kind # "Some"
    THEN [result |-> Unauthorized, log |-> <<>>]
    ELSE LET mfa == GetString(st, SESSION_KEY_NEED_MFA) IN
         CASE mfa.kind = "Some" ->
                [result |-> AuthToken(user.val, "NeedsMfa"), log |-> <<>>]
           [] mfa.kind = "None" ->
                [result |-> AuthToken(user.val, "Authenticated"), log |-> <<>>]
           [] OTHER ->
                [result |-> Unauthorized, log |-> <<NeedMfaReadFault>>]

\* no_longer_valid with a missing or unreadable deadline taken for a valid login.
NoLongerValid_AbsentIsValid(st, t) ==
    LET valid_until == GetSystemTime(st, SESSION_KEY_LOGIN_VALID_UNTIL) IN
    IF valid_until.kind = "Some" THEN t > valid_until.val ELSE FALSE

\* LoginSession::no_longer_valid on the session contents st at time t.
NoLongerValid(st, t) ==
    LET valid_until == GetSystemTime(st, SESSION_KEY_LOGIN_VALID_UNTIL) IN
    IF valid_until.kind = "Some" THEN t > valid_until.val ELSE TRUE

\* Serialization of the arguments of the LoginSession writes.
SerUser(u) == IF u \in Users THEN SerOk(UserToJson(u)) ELSE SerFail
SerTime(t) == IF t >= 0 THEN SerOk(TimeToJson(t)) ELSE SerFail

\* invalidate that removes the user and leaves the rest of the session.
Invalidate_UserOnly(s) == SessionRemove(s, SESSION_KEY_USER)

\* SessionAuthProvider::invalidate.
Invalidate(s) == SessionPurge(s)

\* mfa_challenge_done that removes another key than the one needs_mfa writes.
MfaChallengeDone_WrongKey(s) == SessionRemove(s, "need_mfa")

\* mfa_challenge_done that clears the session.
MfaChallengeDone_ClearsAll(s) == SessionClear(s)

\* LoginSession::mfa_challenge_done.
MfaChallengeDone(s) == SessionRemove(s, SESSION_KEY_NEED_MFA)

\* needs_mfa that writes the factor under the key of the user.
NeedsMfa_OverwritesUser(s, mfa_id) ==
    SessionInsert(s, SESSION_KEY_USER, SerOk(StrToJson(mfa_id)))

\* LoginSession::needs_mfa.
NeedsMfa(s, mfa_id) == SessionInsert(s, SESSION_KEY_NEED_MFA, SerOk(StrToJson(mfa_id)))

\* set_user that keeps a user the session already holds.
SetUser_KeepsExisting(s, user) ==
    IF SESSION_KEY_USER \in DOMAIN s.state
    THEN [s |-> s, ret |-> "Ok"]
    ELSE SessionInsert(s, SESSION_KEY_USER, SerUser(user))

\* set_user that drops the error of the insert.
SetUser_SwallowsError(s, user) ==
    [s |-> SessionInsert(s, SESSION_KEY_USER, SerUser(user)).s, ret |-> "Ok"]

\* set_user that starts the login afresh and drops a pending MFA factor.
SetUser_ClearsMfa(s, user) ==
    SessionInsert(SessionRemove(s, SESSION_KEY_NEED_MFA), SESSION_KEY_USER, SerUser(user))

\* LoginSession::set_user.
SetUser(s, user) == SessionInsert(s, SESSION_KEY_USER, SerUser(user))

\* valid_until that writes the deadline under the key of the MFA factor.
ValidUntil_WrongKey(s, t) == SessionInsert(s, SESSION_KEY_NEED_MFA, SerTime(t))

\* LoginSession::valid_until.
ValidUntil(s, t) == SessionInsert(s, SESSION_KEY_LOGIN_VALID_UNTIL, SerTime(t))

\* A call of a method of Session that takes no argument.
SessionCall(s, call) ==
    CASE call = "renew" -> SessionRenew(s)
      [] call = "clear" -> SessionClear(s)
      [] call = "purge" -> SessionPurge(s)

\* reset that clears the keys before it renews the session.
ResetCalls_ClearFirst == <<"clear", "renew">>

\* The calls LoginSession::reset makes on the session, in their order.
ResetCalls == <<"renew", "clear">>

\* LoginSession::reset: renew, then clear.
Reset(s) == SessionCall(SessionCall(s, ResetCalls[1]), ResetCalls[2])

\* destroy that clears the keys and keeps the session.
Destroy_ClearOnly(s) == SessionClear(s)

\* LoginSession::destroy.
Destroy(s) == SessionPurge(s)

---------------------------------------------------------------------------
VARIABLES
    state,      \* the session's key/value map (key -> JSON text)
    status,     \* the session's status
    calls,      \* calls the handler of the request has made so far
    key,        \* the session key the client holds (NoKey: none)
    now,        \* SystemTime::now()
    pc,         \* the stage of the chain that runs next, "handler": a route
                \* is handling the request, or "responded": answered
    ran,        \* the middlewares that have run for the request, in order
    reqs,       \* requests begun after the first one
    lastOp,     \* the operation performed last and its argument
    ret,        \* what that operation returned
    logged,     \* the error log records that operation wrote
    lastWrite,  \* the last operation that wrote to the session, and its result
    before,     \* the session as it was before that write
    mid,        \* the session after the first Session call of that write
    outstanding, \* a needs_mfa succeeded on this session and neither
                \* mfa_challenge_done, reset nor a purge followed
    lifecycle   \* progress of the sequence set_user, needs_mfa, mfa_challenge_done

vars == <<state, calls, status, key, now, pc, ran, reqs, lastOp, ret, logged,
          lastWrite, before, mid, mid, outstanding, lifecycle>>

\* The middlewares as session_login_factory wraps them around the routes, in
\* the order of the calls of wrap, with the session middleware wrapped first.
Wraps_SessionInnermost == <<"session", "auth">>

\* The middlewares as session_login_factory wraps them around the routes, in
\* the order of the calls of wrap.
Wraps == <<"auth", "session">>

\* The services of the App in the order of their registration: the routes
\* of login_config, which session_login_factory configures, and after them
\* the routes the application adds to the App it is handed.
Routes == <<"login", "app">>

\* The stages a request passes: the middleware wrapped last runs first, and
\* inside all middlewares the services are tried in the order of their
\* registration.
Chain == [i \in 1..Len(Wraps) |-> Wraps[Len(Wraps) + 1 - i]] \o Routes

\* The client holds no session key.
NoKey == <<>>

\* CookieSessionStore::save and update: the session key is the serialized
\* record, here the record itself.
SessionKey(st) == <<st>>

\* The session of the request as req.get_session() gives it: the client's
\* session once the session middleware has run, an empty one before.
SessionSeen ==
    IF \E i \in 1..Len(ran) : ran[i] = "session" THEN state ELSE EmptyState

session == [state |-> state, status |-> status]

Op(name, arg) == [op |-> name, arg |-> arg]

Write(name, arg, result) == [op |-> name, arg |-> arg, ret |-> result]

NoLifecycle == [stage |-> 0, user |-> "", live |-> FALSE]

\* The values a session loaded from the store can hold under a key: the ones
\* the LoginSession writes there, and a text of another type.
Loadable(k) ==
    CASE k = SESSION_KEY_USER -> {UserToJson(u) : u \in Users} \cup {Garbage}
      [] k = SESSION_KEY_NEED_MFA -> {StrToJson(s) : s \in MfaIds} \cup {Garbage}
      [] OTHER -> {TimeToJson(t) : t \in Times} \cup {Garbage}

LoadableStates ==
    UNION {{st \in [D -> UNION {Loadable(k) : k \in Keys}] :
                \A k \in D : st[k] \in Loadable(k)} : D \in SUBSET Keys}

\* A first request of the client has arrived; state is the session that the
\* store holds for the client.
Init ==
    /\ state \in LoadableStates
    /\ status = "Unchanged"
    /\ key \in {NoKey, SessionKey(state)}
    /\ (key = NoKey => state = EmptyState)
    /\ now = 0
    /\ calls = 0
    /\ pc = Chain[1]
    /\ ran = <<>>
    /\ reqs = 0
    /\ lastOp = Op("new_request", "")
    /\ ret = "Unit"
    /\ logged = <<>>
    /\ lastWrite = Write("none", "", "Unit")
    /\ before = [state |-> state, status |-> "Unchanged"]
    /\ mid = [state |-> state, status |-> "Unchanged"]
    /\ outstanding = FALSE
    /\ lifecycle = NoLifecycle

\* A call of the handler: the rest of the request stays as it is.
Frame ==
    /\ calls < MaxCalls
    /\ calls' = calls + 1
    /\ UNCHANGED <<key, now, pc, ran, reqs>>

\* The session middleware materializes the session of the request.
session_middleware ==
    /\ pc = "session"
    /\ pc' = Chain[Len(ran) + 2]
    /\ ran' = Append(ran, "session")
    /\ status' = "Unchanged"
    /\ ret' = "Unit"
    /\ logged' = <<>>
    /\ lastOp' = Op("session_middleware", "")
    /\ outstanding' = (outstanding /\ status # "Purged")
    /\ UNCHANGED <<state, calls, key, now, reqs, lastWrite, before, mid, lifecycle>>

\* The authentication middleware derives the token of the request.
auth_middleware ==
    /\ pc = "auth"
    /\ pc' = Chain[Len(ran) + 2]
    /\ ran' = Append(ran, "auth")
    /\ LET r == GetAuthToken(SessionSeen) IN
        /\ ret' = r.result
        /\ logged' = r.log
    /\ lastOp' = Op("get_auth_token", "")
    /\ UNCHANGED <<state, status, calls, key, now, reqs, lastWrite, before, mid,
                   outstanding, lifecycle>>

\* The routes of login_config are tried first: a request for one of them is
\* handled by its login handler, any other request passes on.
login_routes ==
    /\ pc = "login"
    /\ ran' = Append(ran, "login")
    /\ \E matched \in BOOLEAN :
        pc' = IF matched THEN "handler" ELSE Chain[Len(ran) + 2]
    /\ UNCHANGED <<state, status, calls, key, now, reqs, lastOp, ret, logged,
                   lastWrite, before, mid, outstanding, lifecycle>>

\* A route of the application handles the request.
app_routes ==
    /\ pc = "app"
    /\ ran' = Append(ran, "app")
    /\ pc' = "handler"
    /\ UNCHANGED <<state, status, calls, key, now, reqs, lastOp, ret, logged,
                   lastWrite, before, mid, outstanding, lifecycle>>

\* The service that handles the request.
Handler == ran[Len(ran)]

\* A LoginSession is at hand: the struct is pub(crate), so that the login
\* handling of the crate can hold one and the application cannot.
LoginSession == pc = "handler" /\ Handler = "login"

\* The session becomes s by the write w.
Written(s, w) ==
    /\ state' = s.state
    /\ status' = s.status
    /\ lastWrite' = w
    /\ before' = session
    /\ lastOp' = Op(w.op, w.arg)
    /\ ret' = w.ret
    /\ logged' = <<>>

\* get_auth_token that takes needs_mfa out of the session when it reads it.
get_auth_token_ConsumesMfa ==
    /\ pc = "handler"
    /\ LET r == GetAuthToken(state)
           s == SessionRemove(session, SESSION_KEY_NEED_MFA) IN
        /\ ret' = r.result
        /\ logged' = r.log
        /\ state' = s.state
        /\ status' = s.status
    /\ lastOp' = Op("get_auth_token", "")
    /\ UNCHANGED <<lastWrite, before, mid, outstanding, lifecycle>>
    /\ Frame

get_auth_token ==
    /\ pc = "handler"
    /\ LET r == GetAuthToken(state) IN
        /\ ret' = r.result
        /\ logged' = r.log
    /\ lastOp' = Op("get_auth_token", "")
    /\ UNCHANGED <<state, status, lastWrite, before, mid, outstanding, lifecycle>>
    /\ Frame

invalidate ==
    /\ pc = "handler"
    /\ outstanding' = FALSE
    /\ Written(Invalidate(session), Write("invalidate", "", "Unit"))
    /\ mid' = [state |-> state', status |-> status']
    /\ lifecycle' = NoLifecycle
    /\ Frame

mfa_challenge_done ==
    /\ LoginSession
    /\ outstanding' = FALSE
    /\ Written(MfaChallengeDone(session), Write("mfa_challenge_done", "", "Unit"))
    /\ mid' = [state |-> state', status |-> status']
    /\ lifecycle' = IF lifecycle.stage = 2
                    THEN [lifecycle EXCEPT !.stage = 3] ELSE NoLifecycle
    /\ Frame

needs_mfa(mfa_id) ==
    /\ LoginSession
    /\ outstanding' = (outstanding \/ NeedsMfa(session, mfa_id).ret = "Ok")
    /\ LET r == NeedsMfa(session, mfa_id) IN
        /\ Written(r.s, Write("needs_mfa", mfa_id, r.ret))
        /\ mid' = r.s
        /\ lifecycle' = IF lifecycle.stage = 1 /\ r.ret = "Ok"
                        THEN [lifecycle EXCEPT !.stage = 2] ELSE NoLifecycle
    /\ Frame

set_user(user) ==
    /\ LoginSession
    /\ outstanding' = outstanding
    /\ LET r == SetUser(session, user) IN
        /\ Written(r.s, Write("set_user", user, r.ret))
        /\ mid' = r.s
        /\ lifecycle' = IF r.ret = "Ok" /\ SESSION_KEY_NEED_MFA \notin DOMAIN r.s.state
                        THEN [stage |-> 1, user |-> user, live |-> status # "Purged"]
                        ELSE NoLifecycle
    /\ Frame

valid_until(t) ==
    /\ LoginSession
    /\ outstanding' = outstanding
    /\ LET r == ValidUntil(session, t) IN
        /\ Written(r.s, Write("valid_until", t, r.ret))
        /\ mid' = r.s
    /\ lifecycle' = NoLifecycle
    /\ Frame

\* The argument recorded for no_longer_valid is its reading of SystemTime::now().
no_longer_valid ==
    /\ LoginSession
    /\ ret' = NoLongerValid(state, now)
    /\ logged' = <<>>
    /\ lastOp' = Op("no_longer_valid", now)
    /\ UNCHANGED <<state, status, lastWrite, before, mid, outstanding, lifecycle>>
    /\ Frame

reset ==
    /\ LoginSession
    /\ outstanding' = FALSE
    /\ Written(Reset(session), Write("reset", "", "Unit"))
    /\ mid' = SessionCall(session, ResetCalls[1])
    /\ lifecycle' = NoLifecycle
    /\ Frame

destroy ==
    /\ LoginSession
    /\ outstanding' = FALSE
    /\ Written(Destroy(session), Write("destroy", "", "Unit"))
    /\ mid' = [state |-> state', status |-> status']
    /\ lifecycle' = NoLifecycle
    /\ Frame

\* The session key the client holds once the session middleware has answered
\* a request that came with the key k and left the session with the status
\* st and the record s.  A request that came without a key is given one only
\* for a record that is not empty.  For a request that came with a key, a
\* purged session takes the key away, a changed or renewed one is saved
\* anew, and an unchanged one keeps its key.  CookieSessionStore holds no
\* records of its own: deleting the old key of a renewed session does nothing.
IdentityAfter(st, k, s) ==
    CASE k = NoKey -> IF s = EmptyState THEN NoKey ELSE SessionKey(s)
      [] st = "Purged" -> NoKey
      [] st \in {"Changed", "Renewed"} -> SessionKey(s)
      [] OTHER -> k

\* The session middleware answers the request.
Respond ==
    /\ pc = "handler"
    /\ pc' = "responded"
    /\ key' = IdentityAfter(status, key, state)
    /\ calls' = 0
    /\ ret' = "Unit"
    /\ logged' = <<>>
    /\ lastOp' = Op("respond", "")
    /\ UNCHANGED <<state, status, now, ran, reqs, lastWrite, before, mid, outstanding, lifecycle>>

\* The client's next request arrives.
NewRequest ==
    /\ pc = "responded"
    /\ reqs < MaxRequests
    /\ pc' = Chain[1]
    /\ ran' = <<>>
    /\ reqs' = reqs + 1
    /\ ret' = "Unit"
    /\ logged' = <<>>
    /\ lastOp' = Op("new_request", "")
    /\ UNCHANGED <<state, status, calls, key, now, lastWrite, before, mid, outstanding,
                   lifecycle>>

\* Time passes.
Tick ==
    /\ now < MaxTime
    /\ now' = now + 1
    /\ UNCHANGED <<state, status, calls, key, pc, ran, reqs, lastOp, ret, logged,
                   lastWrite, before, mid, outstanding, lifecycle>>

Next ==
    \/ get_auth_token
    \/ invalidate
    \/ mfa_challenge_done
    \/ \E mfa_id \in MfaIds : needs_mfa(mfa_id)
    \/ \E user \in Users \cup {BadUser} : set_user(user)
    \/ \E t \in TimeArgs : valid_until(t)
    \/ no_longer_valid
    \/ reset
    \/ destroy
    \/ session_middleware
    \/ auth_middleware
    \/ login_routes
    \/ app_routes
    \/ Respond
    \/ NewRequest
    \/ Tick

Spec == Init /\ [][Next]_vars

---------------------------------------------------------------------------
\* Properties.

\* The session holds a user that deserializes.
HasValidUser ==
    /\ SESSION_KEY_USER \in DOMAIN state
    /\ \E u \in Users : state[SESSION_KEY_USER] = UserToJson(u)

\* The session holds a needs_mfa value that reads as a string.
HasReadableMfa ==
    /\ SESSION_KEY_NEED_MFA \in DOMAIN state
    /\ \E s \in MfaIds : state[SESSION_KEY_NEED_MFA] = StrToJson(s)

Derived == lastOp.op = "get_auth_token"

\* C1: a session without a user entry derives UnauthorizedError, whatever
\* needs_mfa and login_valid_until hold.
C1_NoUserUnauthorized ==
    Derived /\ SESSION_KEY_USER \notin DOMAIN state => ret = Unauthorized

C1_Witness ==
    /\ Derived
    /\ DOMAIN state = {SESSION_KEY_NEED_MFA, SESSION_KEY_LOGIN_VALID_UNTIL}
    /\ ret = Unauthorized

\* C2 as stated: with a valid user, any present needs_mfa value, also one
\* that cannot be parsed, derives a token with state NeedsMfa.
C2_AnyMfaValueNeedsMfa ==
    Derived /\ HasValidUser /\ SESSION_KEY_NEED_MFA \in DOMAIN state
        => ret.kind = "Ok" /\ ret.state = "NeedsMfa"

\* C2 amended: with a valid user, a present needs_mfa value that reads as a
\* string (also the empty one) derives NeedsMfa with the stored user; a
\* present value that does not read as a string derives UnauthorizedError.
C2_ReadableMfaNeedsMfa ==
    Derived /\ HasValidUser /\ SESSION_KEY_NEED_MFA \in DOMAIN state
        => IF HasReadableMfa
           THEN /\ ret.kind = "Ok"
                /\ ret.state = "NeedsMfa"
                /\ UserToJson(ret.user) = state[SESSION_KEY_USER]
           ELSE ret = Unauthorized

C2_Witness ==
    /\ Derived
    /\ HasValidUser
    /\ SESSION_KEY_NEED_MFA \in DOMAIN state
    /\ state[SESSION_KEY_NEED_MFA] = StrToJson("")
    /\ ret.state = "NeedsMfa"

\* C3: with a valid user and no needs_mfa entry the token is Authenticated
\* and carries exactly the user stored under the user key.
C3_NoMfaAuthenticated ==
    Derived /\ HasValidUser /\ SESSION_KEY_NEED_MFA \notin DOMAIN state
        => /\ ret.kind = "Ok"
           /\ ret.state = "Authenticated"
           /\ UserToJson(ret.user) = state[SESSION_KEY_USER]

C3_Witness ==
    /\ Derived
    /\ DOMAIN state = {SESSION_KEY_USER}
    /\ state[SESSION_KEY_USER] = UserToJson("u2")
    /\ ret = AuthToken("u2", "Authenticated")

\* C4: get_auth_token can run in every state of a request and ends with a
\* token or UnauthorizedError; when the user is absent or does not
\* deserialize, or the read of needs_mfa fails, it ends with UnauthorizedError.
C4_FailClosedTotal ==
    /\ (pc = "handler" /\ calls < MaxCalls) => ENABLED get_auth_token
    /\ Derived =>
        /\ \/ ret = Unauthorized
           \/ /\ ret.kind = "Ok"
              /\ ret.user \in Users
              /\ ret.state \in {"NeedsMfa", "Authenticated"}
        /\ (~HasValidUser => ret = Unauthorized)
        /\ (SESSION_KEY_NEED_MFA \in DOMAIN state /\ ~HasReadableMfa
                => ret = Unauthorized)

C4_Witness ==
    /\ Derived
    /\ HasValidUser
    /\ SESSION_KEY_NEED_MFA \in DOMAIN state
    /\ state[SESSION_KEY_NEED_MFA] = Garbage
    /\ ret = Unauthorized

\* C5: a derivation that follows mfa_challenge_done with no write in between
\* never yields NeedsMfa: it yields Authenticated when the user is valid and
\* UnauthorizedError otherwise.
C5_MfaDoneNeverNeedsMfa ==
    Derived /\ lastWrite.op = "mfa_challenge_done"
        => /\ ret.state # "NeedsMfa"
           /\ IF HasValidUser
              THEN /\ ret.kind = "Ok"
                   /\ ret.state = "Authenticated"
                   /\ UserToJson(ret.user) = state[SESSION_KEY_USER]
              ELSE ret = Unauthorized

C5_Witness ==
    /\ Derived
    /\ lastWrite.op = "mfa_challenge_done"
    /\ SESSION_KEY_NEED_MFA \in DOMAIN before.state
    /\ ret.kind = "Ok"
    /\ ret.state = "Authenticated"

\* What a derivation yields at the stages of the sequence set_user(u),
\* needs_mfa(factor), mfa_challenge_done().
LifecycleToken ==
    CASE lifecycle.stage = 2 -> AuthToken(lifecycle.user, "NeedsMfa")
      [] OTHER -> AuthToken(lifecycle.user, "Authenticated")

\* C6 as stated: after set_user(u) with no MFA set a derivation yields
\* Authenticated with u, after a following needs_mfa NeedsMfa with u, after
\* a following mfa_challenge_done Authenticated with u.
C6_Lifecycle ==
    Derived /\ lifecycle.stage > 0 => ret = LifecycleToken

\* C6 amended: the same, for a session that was not purged (destroy,
\* invalidate) earlier in the request in which set_user(u) is called.
C6_LifecycleLive ==
    Derived /\ lifecycle.stage > 0 /\ lifecycle.live => ret = LifecycleToken

C6_Witness ==
    /\ Derived
    /\ lifecycle.stage = 3
    /\ lifecycle.live
    /\ ret = AuthToken(lifecycle.user, "Authenticated")

\* The deadline that the session holds reads as the time t.
StoredDeadline(t) ==
    /\ SESSION_KEY_LOGIN_VALID_UNTIL \in DOMAIN state
    /\ state[SESSION_KEY_LOGIN_VALID_UNTIL] = TimeToJson(t)

\* C7 as stated: no_longer_valid returns true if the deadline is absent,
\* unreadable or exceeded, and false only for a readable deadline that is
\* strictly later than the current time.
C7_FalseOnlyInFuture ==
    lastOp.op = "no_longer_valid"
        => /\ (~(\E t \in Times : StoredDeadline(t)) => ret = TRUE)
           /\ \A t \in Times :
                StoredDeadline(t) => /\ (lastOp.arg > t => ret = TRUE)
                                     /\ (ret = FALSE => t > lastOp.arg)

\* C7 amended: no_longer_valid returns true if the deadline is absent,
\* unreadable or exceeded by the current time, and false exactly when a
\* readable deadline is not earlier than the current time (the deadline
\* itself still counts as valid); after a valid_until(t) that stored its
\* value it returns true exactly when the current time is later than t.
C7_FalseUntilDeadline ==
    lastOp.op = "no_longer_valid"
        => /\ ret \in BOOLEAN
           /\ (~(\E t \in Times : StoredDeadline(t)) => ret = TRUE)
           /\ \A t \in Times : StoredDeadline(t) => (ret = (lastOp.arg > t))
           /\ ((lastWrite.op = "valid_until" /\ lastWrite.ret = "Ok"
                    /\ before.status # "Purged")
                => ret = (lastOp.arg > lastWrite.arg))

C7_Witness ==
    /\ lastOp.op = "no_longer_valid"
    /\ lastWrite.op = "valid_until"
    /\ lastWrite.arg = lastOp.arg
    /\ StoredDeadline(lastOp.arg)
    /\ ret = FALSE

\* What reset leaves of a session that is not destroyed: no key, so that a
\* derivation yields UnauthorizedError and no_longer_valid is true, and the
\* mark of the renewal, which was made first, while the keys were still
\* there, and which the clearing that followed did not take away.
C8_ResetState ==
    (lastOp.op = "reset" /\ before.status # "Purged")
        => /\ state = EmptyState
           /\ status = "Renewed"
           /\ mid.state = before.state
           /\ mid.status = "Renewed"
           /\ session = SessionClear(mid)
           /\ GetAuthToken(state).result = Unauthorized
           /\ NoLongerValid(state, now)

\* The request is answered right after a reset of a session that was not
\* destroyed.
C8_AnsweredAfterReset ==
    /\ pc = "handler"
    /\ pc' = "responded"
    /\ lastOp.op = "reset"
    /\ before.status # "Purged"

\* After reset on any session that is not destroyed the identity of the
\* session differs from the identity before the call and no key is left;
\* the renewal comes first and the clearing second.
C8_ResetRotatesIdentity ==
    /\ []C8_ResetState
    /\ [][C8_AnsweredAfterReset => key' # key]_vars

\* C8: reset on a session that is not destroyed leaves no key, so that a
\* derivation yields UnauthorizedError and no_longer_valid is true, and
\* leaves the session marked for renewal; the renewal is made first and the
\* clearing second, and the clearing does not cancel the renewal.  When the
\* request is answered then, a client that came with a session key holds the
\* key of the empty record, which differs from the key it came with unless
\* that was the key of the empty record already, and a client that came
\* without a key holds none.
C8_Reset ==
    /\ []C8_ResetState
    /\ [][C8_AnsweredAfterReset
            => /\ key' = (IF key = NoKey THEN NoKey ELSE SessionKey(EmptyState))
               /\ (key' # key) = (key \notin {NoKey, SessionKey(EmptyState)})]_vars

C8_Witness ==
    /\ lastOp.op = "respond"
    /\ lastWrite.op = "reset"
    /\ DOMAIN before.state = Keys
    /\ before.status = "Unchanged"
    /\ mid = [state |-> before.state, status |-> "Renewed"]
    /\ status = "Renewed"
    /\ state = EmptyState
    /\ key = SessionKey(EmptyState)

\* C9: destroy purges the session; while the request lasts, and when the next
\* one starts, none of the values written before is readable, and a
\* derivation on the purged session yields UnauthorizedError.
C9_DestroyState ==
    /\ lastOp.op = "destroy" => state = EmptyState /\ status = "Purged"
    /\ status = "Purged" => state = EmptyState
    /\ Derived /\ status = "Purged" => ret = Unauthorized
    /\ Derived /\ lastWrite.op = "destroy" => ret = Unauthorized

C9_Destroy ==
    /\ []C9_DestroyState
    /\ [][status = "Purged" => state' = EmptyState]_vars

C9_Witness ==
    /\ Derived
    /\ lastWrite.op = "destroy"
    /\ DOMAIN before.state = Keys
    /\ GetAuthToken(before.state).result.kind = "Ok"
    /\ ret = Unauthorized

\* C10: invalidate purges the session whatever it holds and reports no error,
\* and a derivation afterwards yields UnauthorizedError.
C10_Invalidate ==
    /\ lastOp.op = "invalidate"
        => ret = "Unit" /\ state = EmptyState /\ status = "Purged"
    /\ (pc = "handler" /\ calls < MaxCalls) => ENABLED invalidate
    /\ Derived /\ lastWrite.op = "invalidate" => ret = Unauthorized

C10_Witness ==
    /\ Derived
    /\ lastWrite.op = "invalidate"
    /\ GetAuthToken(before.state).result.state = "Authenticated"
    /\ ret = Unauthorized

\* The session contents st with the deadline replaced by the text v.
WithDeadline(st, v) ==
    [k \in DOMAIN st \cup {SESSION_KEY_LOGIN_VALID_UNTIL} |->
        IF k = SESSION_KEY_LOGIN_VALID_UNTIL THEN v ELSE st[k]]

\* The session contents st without a deadline.
WithoutDeadline(st) ==
    [k \in DOMAIN st \ {SESSION_KEY_LOGIN_VALID_UNTIL} |-> st[k]]

\* C11: the result of a derivation is the result for every session that
\* differs from this one in login_valid_until only (absent, past, future or
\* unreadable); a valid user without needs_mfa derives Authenticated also
\* when no_longer_valid is true.
C11_DeadlineNotConsulted ==
    Derived
        => /\ GetAuthToken(WithoutDeadline(state)).result = ret
           /\ \A v \in Loadable(SESSION_KEY_LOGIN_VALID_UNTIL) :
                GetAuthToken(WithDeadline(state, v)).result = ret
           /\ ((HasValidUser /\ SESSION_KEY_NEED_MFA \notin DOMAIN state
                    /\ NoLongerValid(state, now))
                => ret.kind = "Ok" /\ ret.state = "Authenticated")

C11_Witness ==
    /\ Derived
    /\ HasValidUser
    /\ SESSION_KEY_NEED_MFA \notin DOMAIN state
    /\ StoredDeadline(0)
    /\ now > 0
    /\ NoLongerValid(state, now)
    /\ ret.state = "Authenticated"

\* C12: for every request the session middleware runs first, the
\* authentication middleware second, the routes of the login handling are
\* reached third and the routes of the application after all three; no
\* handler runs before both middlewares have run, and the authentication
\* middleware derives its token from the materialized session of the client.
C12_StageOrder ==
    /\ \E n \in 0..4 : ran = SubSeq(<<"session", "auth", "login", "app">>, 1, n)
    /\ pc = "session" => ran = <<>>
    /\ pc = "auth" => ran = <<"session">> /\ SessionSeen = state
    /\ pc = "login" => /\ ran = <<"session", "auth">>
                       /\ Derived
                       /\ ret = GetAuthToken(state).result
    /\ pc = "app" => ran = <<"session", "auth", "login">>
    /\ pc \in {"handler", "responded"} => /\ Len(ran) \in {3, 4}
                                          /\ ran[1] = "session"
                                          /\ ran[2] = "auth"
                                          /\ ran[3] = "login"

C12_Witness ==
    /\ pc = "handler"
    /\ reqs = 1
    /\ ran = <<"session", "auth", "login", "app">>
    /\ Derived
    /\ lastWrite.op = "set_user"
    /\ ret.kind = "Ok"
    /\ ret.state = "Authenticated"

\* The key that a LoginSession write is about.
OwnKey(op) ==
    CASE op = "set_user" -> SESSION_KEY_USER
      [] op = "valid_until" -> SESSION_KEY_LOGIN_VALID_UNTIL
      [] OTHER -> SESSION_KEY_NEED_MFA

KeyWrites == {"needs_mfa", "set_user", "valid_until", "mfa_challenge_done"}

\* The entry under key k is what it was before the last write.
SameEntry(k) ==
    /\ k \in DOMAIN state <=> k \in DOMAIN before.state
    /\ k \in DOMAIN state => state[k] = before.state[k]

C13_FrameState ==
    lastOp.op \in KeyWrites
        => /\ \A k \in Keys \ {OwnKey(lastOp.op)} : SameEntry(k)
           /\ (status = "Renewed") = (before.status = "Renewed")
           /\ (status = "Purged") = (before.status = "Purged")
           /\ ((lastOp.op = "needs_mfa" /\ status # "Purged")
                => /\ SESSION_KEY_NEED_MFA \in DOMAIN state
                   /\ state[SESSION_KEY_NEED_MFA] = StrToJson(lastOp.arg))

\* The request of a client that came with a session key is answered right
\* after one of the four writes.
C13_AnsweredAfterWrite ==
    /\ pc = "handler"
    /\ pc' = "responded"
    /\ lastOp.op \in KeyWrites
    /\ key # NoKey

HeldUser(u) ==
    /\ SESSION_KEY_USER \in DOMAIN before.state
    /\ before.state[SESSION_KEY_USER] = UserToJson(u)

\* C14: after a set_user(u2) that succeeded on a session holding a user u1,
\* the session holds u2, a derivation carries u2 and never u1, and its
\* state follows from needs_mfa, which is as it was before.
C14_SetUserOverwrites ==
    \A u1 \in Users :
        (Derived /\ lastWrite.op = "set_user" /\ lastWrite.ret = "Ok" /\ HeldUser(u1))
            => /\ state[SESSION_KEY_USER] = UserToJson(lastWrite.arg)
               /\ SameEntry(SESSION_KEY_NEED_MFA)
               /\ ret = IF SESSION_KEY_NEED_MFA \notin DOMAIN state
                        THEN AuthToken(lastWrite.arg, "Authenticated")
                        ELSE IF HasReadableMfa
                             THEN AuthToken(lastWrite.arg, "NeedsMfa")
                             ELSE Unauthorized
               /\ (lastWrite.arg # u1 => ret.user # u1)

C14_Witness ==
    /\ Derived
    /\ lastWrite.op = "set_user"
    /\ lastWrite.arg = "u2"
    /\ HeldUser("u1")
    /\ SESSION_KEY_NEED_MFA \in DOMAIN before.state
    /\ ret = AuthToken("u2", "NeedsMfa")

\* C15 as stated: mfa_challenge_done has no error path, changes nothing
\* when needs_mfa is absent, and a second call changes nothing.
C15_MfaDoneChangesNothing ==
    lastOp.op = "mfa_challenge_done"
        => /\ ret = "Unit"
           /\ (SESSION_KEY_NEED_MFA \notin DOMAIN before.state => session = before)
           /\ MfaChallengeDone(session) = session

\* C15 amended: mfa_challenge_done has no error path; when needs_mfa is
\* absent it changes no key of the session, and only marks a session that
\* was unchanged so far as changed; a second call changes nothing at all.
C15_MfaDoneIdempotent ==
    lastOp.op = "mfa_challenge_done"
        => /\ ret = "Unit"
           /\ SESSION_KEY_NEED_MFA \notin DOMAIN state
           /\ (SESSION_KEY_NEED_MFA \notin DOMAIN before.state
                => /\ state = before.state
                   /\ status = IF before.status = "Unchanged"
                               THEN "Changed" ELSE before.status)
           /\ MfaChallengeDone(session) = session

C15_Witness ==
    /\ lastOp.op = "mfa_challenge_done"
    /\ SESSION_KEY_NEED_MFA \notin DOMAIN before.state
    /\ before.status = "Changed"
    /\ DOMAIN state = {SESSION_KEY_USER, SESSION_KEY_LOGIN_VALID_UNTIL}
    /\ session = before

\* C16: a set_user or valid_until whose value does not serialize returns
\* InsertError (needs_mfa has no such value: a &str always serializes); after
\* a write that returned InsertError the keys of the session are as before,
\* and a derivation returns what it returned on the session before the call.
C16_InsertErrorKeepsRecord ==
    /\ (lastOp.op = "set_user" /\ before.status # "Purged" /\ lastOp.arg = BadUser)
            => ret = "InsertError"
    /\ (lastOp.op = "valid_until" /\ before.status # "Purged" /\ lastOp.arg = PreEpoch)
            => ret = "InsertError"
    /\ (lastOp.op \in {"set_user", "needs_mfa", "valid_until"} /\ ret = "InsertError")
            => state = before.state
    /\ (Derived /\ lastWrite.ret = "InsertError")
            => /\ state = before.state
               /\ ret = GetAuthToken(before.state).result

C16_Witness ==
    /\ Derived
    /\ lastWrite.op = "set_user"
    /\ lastWrite.ret = "InsertError"
    /\ HeldUser("u1")
    /\ ret = AuthToken("u1", "Authenticated")

\* C17: while a second factor is outstanding (a needs_mfa succeeded on the
\* session, and no mfa_challenge_done, reset or purge followed on it),
\* no derivation returns Authenticated.
C17_NoAuthWhileOutstanding ==
    Derived /\ outstanding => ret.state # "Authenticated"

C17_Witness ==
    /\ Derived
    /\ outstanding
    /\ lastWrite.op = "set_user"
    /\ lastWrite.ret = "Ok"
    /\ reqs = 1
    /\ ret.kind = "Ok"
    /\ ret.state = "NeedsMfa"

\* C18: a derivation whose read of needs_mfa fails for a valid user returns
\* UnauthorizedError and writes the fault to the error log; a derivation for
\* a session without a valid user returns UnauthorizedError and logs nothing,
\* as does every derivation that returns a token.
C18_FaultLogged ==
    Derived
        => /\ ((HasValidUser /\ SESSION_KEY_NEED_MFA \in DOMAIN state /\ ~HasReadableMfa)
                => ret = Unauthorized /\ logged = <<NeedMfaReadFault>>)
           /\ (~HasValidUser => ret = Unauthorized /\ logged = <<>>)
           /\ (ret.kind = "Ok" => logged = <<>>)

C18_Witness ==
    /\ Derived
    /\ HasValidUser
    /\ SESSION_KEY_NEED_MFA \in DOMAIN state
    /\ ~HasReadableMfa
    /\ ret = Unauthorized
    /\ logged = <<NeedMfaReadFault>>

\* C19: get_auth_token and no_longer_valid leave the keys, the status and
\* the session key as they are, on every path, and a derivation
\* that follows a derivation returns and logs the same.
C19_ReadOnly ==
    [][/\ lastOp'.op \in {"get_auth_token", "no_longer_valid"}
            => /\ state' = state
               /\ status' = status
               /\ key' = key
       /\ (lastOp.op = "get_auth_token" /\ lastOp'.op = "get_auth_token")
            => ret' = ret /\ logged' = logged]_vars

C19_Witness ==
    /\ Derived
    /\ pc = "handler"
    /\ lastWrite.op = "none"
    /\ status = "Unchanged"
    /\ state = before.state
    /\ DOMAIN state = Keys
    /\ ret = Unauthorized
    /\ logged = <<NeedMfaReadFault>>

\* C20: every token that a derivation returns carries NeedsMfa or
\* Authenticated, never Unauthenticated; a session that does not prove a
\* user is answered with UnauthorizedError and with no token.
C20_NoUnauthenticatedToken ==
    Derived
        => /\ ret.kind \in {"Ok", "Err"}
           /\ (ret.kind = "Ok" => /\ ret.state \in AuthState \ {"Unauthenticated"}
                                  /\ HasValidUser)
           /\ (ret.kind = "Err" => ret = Unauthorized)
           /\ (~HasValidUser => ret.kind = "Err")

C20_Witness ==
    /\ Derived
    /\ HasValidUser
    /\ HasReadableMfa
    /\ lastWrite.op = "needs_mfa"
    /\ ret.kind = "Ok"
    /\ ret.state \in AuthState
    /\ ret.state = "NeedsMfa"

===========================================================================
